---- MODULE Spec2Model ----
(***************************************************************************)
(* Safe comparison engine of hyperion::platform::compare                   *)
(* (include/hyperion/platform/compare.h).                                  *)
(*                                                                         *)
(* The six predicates are pure functions.  They are modelled as operators  *)
(* over typed operands and applied by one action each to operands and an   *)
(* epsilon drawn by Init.                                                  *)
(*                                                                         *)
(* Numeric domain.  Integer types keep their signedness and their rank     *)
(* relative to `int`; their widths are scaled down (i32 has IntBits bits,  *)
(* i8/i16/i64 have IntBits-2/-1/+1) so that every value fits the checker's *)
(* integers.  Floating types are binary IEEE-754 formats with scaled-down  *)
(* precision and exponent range, f32 < f64 <= fmax; every finite value is  *)
(* held as an integer count of the smallest subnormal of the widest format *)
(* (Scale of them make 1.0) and every operation rounds to nearest, ties to *)
(* even, and overflows to infinity, as the hardware does.  fmax is         *)
(* `long double`, whose format the target decides: long_double is the      *)
(* format of the build, the x87 extended format (its significand holds     *)
(* every 64-bit integer) or the format of double.                          *)
(***************************************************************************)
EXTENDS Integers, FiniteSets, Sequences, TLC

VARIABLES long_double, lhs, rhs, epsilon, op, result

vars == <<long_double, lhs, rhs, epsilon, op, result>>

\* Width of `int` (i32/u32) in the model, in bits.
IntBits == 4

(***************************************************************************)
(* Numeric types (types.h)                                                 *)
(***************************************************************************)
SignedTypes == {"i8", "i16", "i32", "i64"}

UnsignedTypes == {"u8", "u16", "u32", "u64"}

IntegralTypes == SignedTypes \cup UnsignedTypes

FloatingTypes == {"f32", "f64", "fmax"}

\* The formats a build gives `long double`.
LongDoubleFormats == {"x87", "binary64"}

\* The widest floating format: p significand bits (hidden bit included),
\* normal exponents emin..emax.
ExtendedFormat == [p |-> 5, emin |-> -3, emax |-> 6]

\* The format of double.  Like that of every floating type of a target, its
\* exponent range holds every 64-bit integer.
DoubleFormat == [p |-> 4, emin |-> -2, emax |-> 6]

\* Format of each floating type.
FloatFormat(t) ==
    CASE t = "f32" -> [p |-> 3, emin |-> -1, emax |-> 3]
      [] t = "f64" -> DoubleFormat
      [] t = "fmax" -> IF long_double = "x87" THEN ExtendedFormat ELSE DoubleFormat

\* A user-defined type with its own relational operators: the struct
\* non_arithmetic of the tests, which holds an i32 and compares by it.
UserTypes == {"non_arithmetic"}

\* std::integral<T>
integral(t) == t \in IntegralTypes

\* std::floating_point<T>
floating_point(t) == t \in FloatingTypes

\* The concept Arithmetic.
Arithmetic(t) == integral(t) \/ floating_point(t)

\* std::is_signed_v<T>
is_signed(t) == t \in SignedTypes \/ t \in FloatingTypes

\* Conversion rank of a type: 8, 16, 32 and 64 bit integers, then the
\* floating types.
Rank(t) ==
    CASE t \in {"i8", "u8"} -> 1
      [] t \in {"i16", "u16"} -> 2
      [] t \in {"i32", "u32"} -> 3
      [] t \in {"i64", "u64"} -> 4
      [] t = "f32" -> 5
      [] t = "f64" -> 6
      [] t = "fmax" -> 7

\* Width in bits of an integer type.
Bits(t) == IntBits + Rank(t) - Rank("i32")

\* std::numeric_limits<T>::min() and max() of an integer type.
IntMin(t) == IF t \in SignedTypes THEN -(2 ^ (Bits(t) - 1)) ELSE 0

IntMax(t) == IF t \in SignedTypes THEN 2 ^ (Bits(t) - 1) - 1 ELSE 2 ^ Bits(t) - 1

\* static_cast<T>(v) for an integer type T: reduction modulo 2^w.
static_cast_int(t, v) ==
    IF t \in SignedTypes
    THEN ((v + 2 ^ (Bits(t) - 1)) % (2 ^ Bits(t))) - 2 ^ (Bits(t) - 1)
    ELSE v % (2 ^ Bits(t))

\* Integral promotion: a type of lower rank than int becomes int.
Promote(t) == IF Rank(t) < Rank("i32") THEN "i32" ELSE t

ToUnsigned(t) ==
    CASE t = "i8" -> "u8" [] t = "i16" -> "u16" [] t = "i32" -> "u32"
      [] t = "i64" -> "u64" [] OTHER -> t

\* The usual arithmetic conversions on a signed type s and an unsigned
\* type u, both promoted.
MixedSignConversion(s, u) ==
    IF Rank(u) >= Rank(s) THEN u
    ELSE IF IntMax(s) >= IntMax(u) THEN s
    ELSE ToUnsigned(s)

\* The usual arithmetic conversions on two promoted integer types.
IntegerConversion(a, b) ==
    IF a = b THEN a
    ELSE IF a \in SignedTypes /\ b \in UnsignedTypes THEN MixedSignConversion(a, b)
    ELSE IF a \in UnsignedTypes /\ b \in SignedTypes THEN MixedSignConversion(b, a)
    ELSE IF Rank(a) >= Rank(b) THEN a
    ELSE b

\* The usual arithmetic conversions: the type in which a built-in binary
\* operator on operands of types t1 and t2 is evaluated.
UsualArithmeticConversion(t1, t2) ==
    IF floating_point(t1) /\ floating_point(t2) THEN (IF Rank(t1) >= Rank(t2) THEN t1 ELSE t2)
    ELSE IF floating_point(t1) THEN t1
    ELSE IF floating_point(t2) THEN t2
    ELSE IntegerConversion(Promote(t1), Promote(t2))

\* detail::common_type_t<T1, T2>: std::common_type_t of two arithmetic
\* types, std::nullptr_t when neither type is arithmetic.
common_type_t(t1, t2) ==
    IF ~(Arithmetic(t1) /\ Arithmetic(t2)) THEN "nullptr_t"
    ELSE IF t1 = t2 THEN t1
    ELSE UsualArithmeticConversion(t1, t2)

(***************************************************************************)
(* IEEE-754 values and arithmetic                                          *)
(*                                                                         *)
(* A value is [ty, k, v]: its type, its class ("fin", "pinf", "ninf",      *)
(* "nan") and, when finite, its magnitude: the integer itself for an       *)
(* integer type, a count of units for a floating type.  The sign of a zero *)
(* and of a NaN are not held: no predicate can observe them (-0 == +0, and *)
(* every predicate tests isnan before it looks at a sign).                 *)
(***************************************************************************)
\* Units per 1.0: the reciprocal of the smallest subnormal of the widest
\* format.
Scale == 2 ^ (ExtendedFormat.p - 1 - ExtendedFormat.emin)

Fin(t, n) == [ty |-> t, k |-> "fin", v |-> n]

PInf(t) == [ty |-> t, k |-> "pinf", v |-> 0]

NInf(t) == [ty |-> t, k |-> "ninf", v |-> 0]

NaN(t) == [ty |-> t, k |-> "nan", v |-> 0]

\* std::numeric_limits<T>::denorm_min(), as the exponent of a power of two
\* of units.
DenormExp(t) ==
    FloatFormat(t).emin - FloatFormat(t).p + ExtendedFormat.p - ExtendedFormat.emin

\* std::numeric_limits<T>::max() in units.
MaxFinite(t) ==
    (2 ^ FloatFormat(t).p - 1) * 2 ^ (FloatFormat(t).emax - FloatFormat(t).emin + DenormExp(t))

\* std::numeric_limits<T>::min(): the smallest normal value, in units.
MinNormal(t) == 2 ^ (DenormExp(t) + FloatFormat(t).p - 1)

\* std::numeric_limits<T>::epsilon(): 2^(1-p) for a floating type, 0 for an
\* integer type.
MachineEpsilon(t) ==
    IF floating_point(t) THEN Fin(t, Scale \div 2 ^ (FloatFormat(t).p - 1)) ELSE Fin(t, 0)

RECURSIVE FloorLog2(_)
FloorLog2(n) == IF n <= 1 THEN 0 ELSE 1 + FloorLog2(n \div 2)

AbsInt(n) == IF n < 0 THEN -n ELSE n

\* The larger of two exponents.
MaxExp(a, b) == IF a > b THEN a ELSE b

\* The spacing, in units, of the values of type t around a magnitude of q
\* units.
Ulp(t, q) == 2 ^ MaxExp(FloorLog2(q) - FloatFormat(t).p + 1, DenormExp(t))

\* The value of sign num and magnitude r units in type t: an infinity when
\* r is beyond the largest finite value.
Overflow(t, num, r) ==
    IF r > MaxFinite(t)
    THEN (IF num < 0 THEN NInf(t) ELSE PInf(t))
    ELSE Fin(t, IF num < 0 THEN -r ELSE r)

\* n whole steps and rem/d of a step: to nearest, ties to even.
NearestEven(n, rem, d) ==
    IF 2 * rem > d \/ (2 * rem = d /\ n % 2 = 1) THEN n + 1 ELSE n

\* |num|/den units rounded to a multiple of ulp units.
RoundToUlp(t, num, den, ulp) ==
    Overflow(t, num,
             ulp * NearestEven(AbsInt(num) \div (den * ulp), AbsInt(num) % (den * ulp), den * ulp))

\* The value of type t nearest to num/den units: round to nearest, ties to
\* even, overflow to infinity.
Round(t, num, den) == RoundToUlp(t, num, den, Ulp(t, AbsInt(num) \div den))

\* static_cast<T>(x) for a floating type T and an arithmetic x.
static_cast_float(t, x) ==
    IF x.k # "fin" THEN [x EXCEPT !.ty = t]
    ELSE Round(t, IF integral(x.ty) THEN x.v * Scale ELSE x.v, 1)

\* static_cast<T>(x) for arithmetic T and x.
static_cast(t, x) ==
    IF floating_point(t) THEN static_cast_float(t, x) ELSE Fin(t, static_cast_int(t, x.v))

isnan(x) == x.k = "nan"

isinf(x) == x.k \in {"pinf", "ninf"}

\* std::signbit
signbit(x) == x.k = "ninf" \/ (x.k = "fin" /\ x.v < 0)

\* A key ordering the non-NaN values of one type.
OrderKey(x) ==
    CASE x.k = "ninf" -> -(MaxFinite("fmax") + 1)
      [] x.k = "pinf" -> MaxFinite("fmax") + 1
      [] OTHER -> x.v

\* Built-in comparison of two values of one type; a NaN makes each of them
\* false except !=.
SameTypeEq(a, b) == ~isnan(a) /\ ~isnan(b) /\ OrderKey(a) = OrderKey(b)

SameTypeLt(a, b) == ~isnan(a) /\ ~isnan(b) /\ OrderKey(a) < OrderKey(b)

SameTypeLe(a, b) == ~isnan(a) /\ ~isnan(b) /\ OrderKey(a) <= OrderKey(b)

\* Built-in comparison operators on operands of any two arithmetic types:
\* both are converted to their common type and compared there.
Converted(x, other) == static_cast(UsualArithmeticConversion(x.ty, other.ty), x)

NativeEq(x, y) == SameTypeEq(Converted(x, y), Converted(y, x))

NativeNe(x, y) == ~SameTypeEq(Converted(x, y), Converted(y, x))

NativeLt(x, y) == SameTypeLt(Converted(x, y), Converted(y, x))

NativeLe(x, y) == SameTypeLe(Converted(x, y), Converted(y, x))

NativeGt(x, y) == SameTypeLt(Converted(y, x), Converted(x, y))

NativeGe(x, y) == SameTypeLe(Converted(y, x), Converted(x, y))

\* Unary minus of a floating value.
Negate(x) ==
    CASE x.k = "pinf" -> NInf(x.ty)
      [] x.k = "ninf" -> PInf(x.ty)
      [] x.k = "nan" -> x
      [] OTHER -> Fin(x.ty, -x.v)

\* Built-in x + y and x - y of two values of one floating type.
NativeAdd(x, y) ==
    CASE isnan(x) \/ isnan(y) -> NaN(x.ty)
      [] isinf(x) /\ isinf(y) -> IF x.k = y.k THEN x ELSE NaN(x.ty)
      [] isinf(x) -> x
      [] isinf(y) -> y
      [] OTHER -> Round(x.ty, x.v + y.v, 1)

NativeSub(x, y) ==
    CASE isnan(x) \/ isnan(y) -> NaN(x.ty)
      [] isinf(x) /\ isinf(y) -> IF x.k # y.k THEN x ELSE NaN(x.ty)
      [] isinf(x) -> x
      [] isinf(y) -> Negate(y)
      [] OTHER -> Round(x.ty, x.v - y.v, 1)

\* Built-in x * y of two values of one floating type.
NativeMul(x, y) ==
    CASE isnan(x) \/ isnan(y) -> NaN(x.ty)
      [] isinf(x) \/ isinf(y) ->
            IF (x.k = "fin" /\ x.v = 0) \/ (y.k = "fin" /\ y.v = 0) THEN NaN(x.ty)
            ELSE IF signbit(x) = signbit(y) THEN PInf(x.ty) ELSE NInf(x.ty)
      [] OTHER -> Round(x.ty, x.v * y.v, Scale)

(***************************************************************************)
(* detail:: helpers and the Epsilon model                                  *)
(***************************************************************************)
\* detail::abs
abs(value) ==
    IF ~signbit(value) THEN value
    ELSE IF integral(value.ty) THEN Fin(value.ty, static_cast_int(value.ty, -value.v))
    ELSE Negate(value)

\* detail::max
max(l, r) == static_cast(common_type_t(l.ty, r.ty), IF NativeLt(l, r) THEN r ELSE l)

\* detail::default_epsilon with twice the machine epsilon as the Absolute
\* default.
default_epsilon_doubled(type, tl, tr) ==
    IF type = "Absolute" /\ common_type_t(tl, tr) # "nullptr_t"
    THEN NativeAdd(MachineEpsilon(common_type_t(tl, tr)), MachineEpsilon(common_type_t(tl, tr)))
    ELSE static_cast(IF common_type_t(tl, tr) = "nullptr_t" THEN "fmax" ELSE common_type_t(tl, tr),
                     Round("fmax", Scale, 1000))

\* detail::default_epsilon<TType, TLhs, TRhs>: the machine epsilon of the
\* common type for an Absolute epsilon of types that have one, else the
\* literal 0.001_fmax as a value of the common type, or of fmax when there
\* is none.
default_epsilon(type, tl, tr) ==
    IF type = "Absolute" /\ common_type_t(tl, tr) # "nullptr_t"
    THEN MachineEpsilon(common_type_t(tl, tr))
    ELSE static_cast(IF common_type_t(tl, tr) = "nullptr_t" THEN "fmax" ELSE common_type_t(tl, tr),
                     Round("fmax", Scale, 1000))

\* An Epsilon<TType, TNumeric> holding m_epsilon = m (of type TNumeric).
Epsilon(type, m) == [type |-> type, m |-> m]

\* Epsilon<TType, TNumeric>{}: m_epsilon takes its default member
\* initializer.
Epsilon_default(type, tnumeric) == Epsilon(type, default_epsilon(type, tnumeric, tnumeric))

\* make_epsilon<TType>(epsilon)
make_epsilon(type, m) == Epsilon(type, m)

\* detail::make_epsilon<TLhs, TRhs>(): the epsilon of a call that passes none.
detail_make_epsilon(tl, tr) == Epsilon("Absolute", default_epsilon("Absolute", tl, tr))

\* Epsilon::value
Epsilon_value(e) == e.m

\* The else branch of Epsilon::epsilon without the scaling by the operands.
Epsilon_relative_unscaled(m, mx) == m

\* The else branch of Epsilon::epsilon returning the product as computed in
\* the common type, without the conversion to TNumeric.
Epsilon_relative_uncast(m, mx) ==
    NativeMul(static_cast(common_type_t(m.ty, mx.ty), m), static_cast(common_type_t(m.ty, mx.ty), mx))

\* The else branch of Epsilon::epsilon: m_epsilon times mx, the larger
\* operand magnitude, multiplied in their common type and returned as
\* TNumeric.
Epsilon_relative(m, mx) ==
    static_cast(m.ty, NativeMul(static_cast(common_type_t(m.ty, mx.ty), m),
                                static_cast(common_type_t(m.ty, mx.ty), mx)))

\* Epsilon::epsilon taking the Relative branch for either kind.
Epsilon_epsilon_always_relative(e, l, r) == Epsilon_relative(e.m, max(abs(l), abs(r)))

\* Epsilon::epsilon
Epsilon_epsilon(e, l, r) ==
    IF e.type = "Absolute" THEN e.m ELSE Epsilon_relative(e.m, max(abs(l), abs(r)))

\* common_t of the floating branches: the common type of the operands and
\* the error.
common_t(l, r, error) == common_type_t(common_type_t(l.ty, r.ty), error.ty)

\* safe_float_equality from diff on, with its final comparison turned
\* around.
safe_float_equality_diff_flipped(left, right, err, diff) ==
    IF isinf(diff) \/ isnan(diff)
    THEN SameTypeLe(NativeSub(right, err), left) /\ SameTypeLe(left, NativeAdd(right, err))
    ELSE SameTypeLe(err, abs(diff))

\* safe_float_equality from diff on, with an exclusive boundary.
safe_float_equality_diff_strict(left, right, err, diff) ==
    IF isinf(diff) \/ isnan(diff)
    THEN SameTypeLe(NativeSub(right, err), left) /\ SameTypeLe(left, NativeAdd(right, err))
    ELSE SameTypeLt(abs(diff), err)

\* safe_float_equality from diff on, with a bounds check that tests the
\* upper bound only.
safe_float_equality_diff_upper_only(left, right, err, diff) ==
    IF isinf(diff) \/ isnan(diff)
    THEN SameTypeLe(left, NativeAdd(right, err))
    ELSE SameTypeLe(abs(diff), err)

\* detail::safe_float_equality from diff on: the bounds check when the
\* difference is not finite, |diff| <= err otherwise.
safe_float_equality_diff(left, right, err, diff) ==
    IF isinf(diff) \/ isnan(diff)
    THEN SameTypeLe(NativeSub(right, err), left) /\ SameTypeLe(left, NativeAdd(right, err))
    ELSE SameTypeLe(abs(diff), err)

\* detail::safe_float_equality
safe_float_equality(l, r, error) ==
    safe_float_equality_diff(
        static_cast(common_t(l, r, error), l),
        static_cast(common_t(l, r, error), r),
        static_cast(common_t(l, r, error), error),
        NativeSub(static_cast(common_t(l, r, error), l), static_cast(common_t(l, r, error), r)))

\* detail::safe_float_inequality from diff on.
safe_float_inequality_diff(left, right, err, diff) ==
    IF isinf(diff) \/ isnan(diff)
    THEN SameTypeLt(left, NativeSub(right, err)) \/ SameTypeLt(NativeAdd(right, err), left)
    ELSE SameTypeLt(err, abs(diff))

\* detail::safe_float_inequality
safe_float_inequality(l, r, error) ==
    safe_float_inequality_diff(
        static_cast(common_t(l, r, error), l),
        static_cast(common_t(l, r, error), r),
        static_cast(common_t(l, r, error), error),
        NativeSub(static_cast(common_t(l, r, error), l), static_cast(common_t(l, r, error), r)))

\* The recursion of the integer/floating branches with the integer operand
\* passed on as static_cast<f32>(operand).
Widen_f32(x) == IF integral(x.ty) THEN static_cast("f32", x) ELSE x

\* The recursion of the integer/floating branches: an integer operand is
\* passed on as static_cast<fmax>(operand).
Widen(x) == IF integral(x.ty) THEN static_cast("fmax", x) ELSE x

\* LessByError with the error added to rhs: lhs < rhs + error.
LessByError_plus_error(l, r, error) ==
    SameTypeLt(static_cast(common_t(l, r, error), l),
               NativeAdd(static_cast(common_t(l, r, error), r),
                         static_cast(common_t(l, r, error), error)))

\* LessByError with the comparison of greater_than_compare.
LessByError_as_greater(l, r, error) ==
    SameTypeLt(static_cast(common_t(l, r, error), r),
               NativeSub(static_cast(common_t(l, r, error), l),
                         static_cast(common_t(l, r, error), error)))

\* lhs < rhs - error and lhs - error > rhs, evaluated in common_t.
LessByError(l, r, error) ==
    SameTypeLt(static_cast(common_t(l, r, error), l),
               NativeSub(static_cast(common_t(l, r, error), r),
                         static_cast(common_t(l, r, error), error)))

\* lhs > rhs in common_t: GreaterByError without the error.
GreaterByError_no_error(l, r, error) ==
    SameTypeLt(static_cast(common_t(l, r, error), r), static_cast(common_t(l, r, error), l))

GreaterByError(l, r, error) ==
    SameTypeLt(static_cast(common_t(l, r, error), r),
               NativeSub(static_cast(common_t(l, r, error), l),
                         static_cast(common_t(l, r, error), error)))

\* The relational operators of non_arithmetic: those of the i32 it holds.
operator_eq(l, r) == l.v = r.v

operator_ne(l, r) == l.v # r.v

operator_lt(l, r) == l.v < r.v

operator_le(l, r) == l.v <= r.v

operator_gt(l, r) == l.v > r.v

operator_ge(l, r) == l.v >= r.v

(***************************************************************************)
(* equality_compare                                                        *)
(***************************************************************************)
equality_compare_integral(l, r) ==
    IF is_signed(l.ty) /\ ~is_signed(r.ty)
    THEN IF signbit(l) THEN FALSE ELSE NativeEq(static_cast(r.ty, l), r)
    ELSE IF is_signed(r.ty) /\ ~is_signed(r.ty)
         THEN IF signbit(r) THEN FALSE ELSE NativeEq(l, static_cast(l.ty, r))
         ELSE NativeEq(l, r)

\* The floating branch of equality_compare testing for NaN only.
equality_compare_floating_nan_only(l, r, e) ==
    IF isnan(l) \/ isnan(r)
    THEN FALSE
    ELSE safe_float_equality(l, r, Epsilon_epsilon(e, l, r))

equality_compare_floating(l, r, e) ==
    IF isnan(l) \/ isinf(l) \/ isnan(r) \/ isinf(r)
    THEN FALSE
    ELSE safe_float_equality(l, r, Epsilon_epsilon(e, l, r))

equality_compare(l, r, e) ==
    IF integral(l.ty) /\ integral(r.ty)
    THEN equality_compare_integral(l, r)
    ELSE IF floating_point(l.ty) \/ floating_point(r.ty)
         THEN equality_compare_floating(Widen(l), Widen(r), e)
         ELSE operator_eq(l, r)

(***************************************************************************)
(* inequality_compare                                                      *)
(***************************************************************************)
inequality_compare_integral(l, r) ==
    IF is_signed(l.ty) /\ ~is_signed(r.ty)
    THEN IF signbit(l) THEN TRUE ELSE NativeNe(static_cast(r.ty, l), r)
    ELSE IF is_signed(r.ty) /\ ~is_signed(r.ty)
         THEN IF signbit(r) THEN TRUE ELSE NativeNe(l, static_cast(l.ty, r))
         ELSE NativeNe(l, r)

inequality_compare_floating(l, r, e) ==
    IF isnan(l) \/ isinf(l) \/ isnan(r) \/ isinf(r)
    THEN TRUE
    ELSE safe_float_inequality(l, r, Epsilon_epsilon(e, l, r))

inequality_compare(l, r, e) ==
    IF integral(l.ty) /\ integral(r.ty)
    THEN inequality_compare_integral(l, r)
    ELSE IF floating_point(l.ty) \/ floating_point(r.ty)
         THEN inequality_compare_floating(Widen(l), Widen(r), e)
         ELSE operator_ne(l, r)

(***************************************************************************)
(* less_than_compare                                                       *)
(***************************************************************************)
\* The integer branch of less_than_compare without its sign tests.
less_than_compare_integral_unsigned_cast(l, r) ==
    IF is_signed(l.ty) /\ ~is_signed(r.ty)
    THEN NativeLt(static_cast(r.ty, l), r)
    ELSE IF is_signed(r.ty) /\ ~is_signed(l.ty)
         THEN NativeLt(l, static_cast(l.ty, r))
         ELSE NativeLt(l, r)

less_than_compare_integral(l, r) ==
    IF is_signed(l.ty) /\ ~is_signed(r.ty)
    THEN IF signbit(l) THEN TRUE ELSE NativeLt(static_cast(r.ty, l), r)
    ELSE IF is_signed(r.ty) /\ ~is_signed(l.ty)
         THEN IF signbit(r) THEN FALSE ELSE NativeLt(l, static_cast(l.ty, r))
         ELSE NativeLt(l, r)

\* The floating branch of less_than_compare with the NaN test first.
less_than_compare_floating_nan_first(l, r, e) ==
    IF isnan(l) \/ isnan(r) THEN FALSE
    ELSE IF isinf(l) /\ signbit(l) THEN TRUE
    ELSE IF isinf(r) /\ signbit(r) THEN FALSE
    ELSE LessByError(l, r, Epsilon_epsilon(e, l, r))

less_than_compare_floating(l, r, e) ==
    IF isinf(l) /\ signbit(l) THEN TRUE
    ELSE IF isinf(r) /\ signbit(r) THEN FALSE
    ELSE IF isnan(l) \/ isnan(r) THEN FALSE
    ELSE LessByError(l, r, Epsilon_epsilon(e, l, r))

less_than_compare(l, r, e) ==
    IF integral(l.ty) /\ integral(r.ty)
    THEN less_than_compare_integral(l, r)
    ELSE IF floating_point(l.ty) \/ floating_point(r.ty)
         THEN less_than_compare_floating(Widen(l), Widen(r), e)
         ELSE operator_lt(l, r)

(***************************************************************************)
(* less_than_or_equal_compare                                              *)
(***************************************************************************)
less_than_or_equal_compare_integral(l, r) ==
    IF is_signed(l.ty) /\ ~is_signed(r.ty)
    THEN IF signbit(l) THEN TRUE ELSE NativeLe(static_cast(r.ty, l), r)
    ELSE IF is_signed(r.ty) /\ ~is_signed(l.ty)
         THEN IF signbit(r) THEN FALSE ELSE NativeLe(l, static_cast(l.ty, r))
         ELSE NativeLe(l, r)

\* The last two statements of the floating branch: less || equality.
less_than_or_equal_compare_error(l, r, error) ==
    LessByError(l, r, error) \/ safe_float_equality(l, r, error)

less_than_or_equal_compare_floating(l, r, e) ==
    IF isinf(l) /\ signbit(l) THEN TRUE
    ELSE IF isinf(r) /\ signbit(r) THEN FALSE
    ELSE IF isnan(l) \/ isnan(r) THEN FALSE
    ELSE less_than_or_equal_compare_error(l, r, Epsilon_epsilon(e, l, r))

less_than_or_equal_compare(l, r, e) ==
    IF integral(l.ty) /\ integral(r.ty)
    THEN less_than_or_equal_compare_integral(l, r)
    ELSE IF floating_point(l.ty) \/ floating_point(r.ty)
         THEN less_than_or_equal_compare_floating(Widen(l), Widen(r), e)
         ELSE operator_le(l, r)

(***************************************************************************)
(* greater_than_compare                                                    *)
(***************************************************************************)
greater_than_compare_integral(l, r) ==
    IF is_signed(l.ty) /\ ~is_signed(r.ty)
    THEN IF signbit(l) THEN FALSE ELSE NativeGt(static_cast(r.ty, l), r)
    ELSE IF is_signed(r.ty) /\ ~is_signed(l.ty)
         THEN IF signbit(r) THEN TRUE ELSE NativeGt(l, static_cast(l.ty, r))
         ELSE NativeGt(l, r)

\* The floating branch of greater_than_compare with its first test made
\* without the sign.
greater_than_compare_floating_any_infinity(l, r, e) ==
    IF isinf(l) THEN FALSE
    ELSE IF isinf(r) /\ signbit(r) THEN TRUE
    ELSE IF isnan(l) \/ isnan(r) THEN FALSE
    ELSE GreaterByError(l, r, Epsilon_epsilon(e, l, r))

greater_than_compare_floating(l, r, e) ==
    IF isinf(l) /\ signbit(l) THEN FALSE
    ELSE IF isinf(r) /\ signbit(r) THEN TRUE
    ELSE IF isnan(l) \/ isnan(r) THEN FALSE
    ELSE GreaterByError(l, r, Epsilon_epsilon(e, l, r))

greater_than_compare(l, r, e) ==
    IF integral(l.ty) /\ integral(r.ty)
    THEN greater_than_compare_integral(l, r)
    ELSE IF floating_point(l.ty) \/ floating_point(r.ty)
         THEN greater_than_compare_floating(Widen(l), Widen(r), e)
         ELSE operator_gt(l, r)

(***************************************************************************)
(* greater_than_or_equal_compare                                           *)
(***************************************************************************)
\* The integer branch of greater_than_or_equal_compare with the second
\* signedness test written as it is in equality_compare.
greater_than_or_equal_compare_integral_rhs_rhs(l, r) ==
    IF is_signed(l.ty) /\ ~is_signed(r.ty)
    THEN IF signbit(l) THEN FALSE ELSE NativeGe(static_cast(r.ty, l), r)
    ELSE IF is_signed(r.ty) /\ ~is_signed(r.ty)
         THEN IF signbit(r) THEN TRUE ELSE NativeGe(l, static_cast(l.ty, r))
         ELSE NativeGe(l, r)

greater_than_or_equal_compare_integral(l, r) ==
    IF is_signed(l.ty) /\ ~is_signed(r.ty)
    THEN IF signbit(l) THEN FALSE ELSE NativeGe(static_cast(r.ty, l), r)
    ELSE IF is_signed(r.ty) /\ ~is_signed(l.ty)
         THEN IF signbit(r) THEN TRUE ELSE NativeGe(l, static_cast(l.ty, r))
         ELSE NativeGe(l, r)

\* The last two statements of the floating branch: greater || equality.
greater_than_or_equal_compare_error(l, r, error) ==
    GreaterByError(l, r, error) \/ safe_float_equality(l, r, error)

greater_than_or_equal_compare_floating(l, r, e) ==
    IF isinf(l) /\ signbit(l) THEN FALSE
    ELSE IF isinf(r) /\ signbit(r) THEN TRUE
    ELSE IF isnan(l) \/ isnan(r) THEN FALSE
    ELSE greater_than_or_equal_compare_error(l, r, Epsilon_epsilon(e, l, r))

\* greater_than_or_equal_compare delegating to the type's operator>.
greater_than_or_equal_compare_by_greater(l, r, e) ==
    IF integral(l.ty) /\ integral(r.ty)
    THEN greater_than_or_equal_compare_integral(l, r)
    ELSE IF floating_point(l.ty) \/ floating_point(r.ty)
         THEN greater_than_or_equal_compare_floating(Widen(l), Widen(r), e)
         ELSE operator_gt(l, r)

greater_than_or_equal_compare(l, r, e) ==
    IF integral(l.ty) /\ integral(r.ty)
    THEN greater_than_or_equal_compare_integral(l, r)
    ELSE IF floating_point(l.ty) \/ floating_point(r.ty)
         THEN greater_than_or_equal_compare_floating(Widen(l), Widen(r), e)
         ELSE operator_ge(l, r)

(***************************************************************************)
(* Inputs                                                                  *)
(***************************************************************************)
InRange(t, S) == {n \in S : IntMin(t) <= n /\ n <= IntMax(t)}

\* Integer operands: for every modelled width w, the values around the
\* limits of the w-bit types, as far as they are in the range of the type.
IntBoundaryValues ==
    UNION {{-(2 ^ (Bits(t) - 1)), -1, 0, 1, 2 ^ (Bits(t) - 1) - 1, 2 ^ Bits(t) - 1, 2 ^ Bits(t)} :
           t \in SignedTypes}

IntOperands == UNION {{Fin(t, n) : n \in InRange(t, IntBoundaryValues)} : t \in IntegralTypes}

\* The limits of each integer type and the values around zero.
IntLimitOperands ==
    UNION {{Fin(t, n) : n \in InRange(t, {IntMin(t), -1, 0, 1, IntMax(t)})} : t \in IntegralTypes}

\* Floating operands of a type with the given finite magnitudes: those
\* values, their negations, the infinities and NaN.
FloatsOf(t, magnitudes) ==
    {Fin(t, n) : n \in magnitudes} \cup {Fin(t, -n) : n \in magnitudes}
    \cup {PInf(t), NInf(t), NaN(t)}

\* Zero, 1, the two values after 1 and the largest finite value.
FloatOperands ==
    UNION {FloatsOf(t, {0, Scale, Scale + MachineEpsilon(t).v, Scale + 2 * MachineEpsilon(t).v,
                        MaxFinite(t)}) : t \in FloatingTypes}

\* Zero, 1 and the largest finite value.
FloatLimitOperands == UNION {FloatsOf(t, {0, Scale, MaxFinite(t)}) : t \in FloatingTypes}

Operands == IntLimitOperands \cup FloatLimitOperands

\* The floating values of type t that have the value n or n + 1 of an
\* integer operand n.
IntegerValuedFloats(t) ==
    {Fin(t, n * Scale) :
        n \in {m \in {i.v : i \in IntLimitOperands} \cup {i.v + 1 : i \in IntLimitOperands} :
                 Round(t, m * Scale, 1) = Fin(t, m * Scale)}}

IntegerValuedOperands == UNION {IntegerValuedFloats(t) : t \in FloatingTypes}

\* Values of the user-defined type: one for each i32 around zero and at
\* the limits.
UserOperands ==
    {Fin("non_arithmetic", n) : n \in {IntMin("i32"), -1, 0, 1, 2, IntMax("i32")}}

AllOperands ==
    IntOperands \cup FloatOperands \cup Operands \cup IntegerValuedOperands \cup UserOperands
    \cup {Fin("u64", 9)}

EpsilonTypes == {"Absolute", "Relative"}

\* Epsilons a caller passes: of either kind, held as f64, of magnitude the
\* f64 machine epsilon or 1.
ExplicitEpsilons ==
    {make_epsilon(type, Fin("f64", n)) : type \in EpsilonTypes, n \in {MachineEpsilon("f64").v, Scale}}

\* As above, and the magnitudes zero, minus one, infinity and NaN.
AnyEpsilons ==
    ExplicitEpsilons
    \cup {make_epsilon(type, m) :
            type \in EpsilonTypes, m \in {Fin("f64", 0), Fin("f64", -Scale), PInf("f64"), NaN("f64")}}

\* The epsilons of the calls on l and r: the defaulted one, and for a call
\* that has a floating operand the explicit ones.
EpsilonsFor(l, r, explicit) ==
    {detail_make_epsilon(l.ty, r.ty)}
    \cup (IF integral(l.ty) /\ integral(r.ty) THEN {} ELSE explicit)

\* Operands of the calls of Epsilon's functions: integers small enough to
\* be in the range of every type, floating values, a user-defined value.
EpsilonOperands ==
    {Fin("i8", -1), Fin("i8", 1), Fin("i32", -1), Fin("i32", 7), Fin("u64", 1), Fin("u64", 9)}
    \cup UNION {FloatsOf(t, {0, Scale + MachineEpsilon(t).v, MaxFinite(t)}) : t \in FloatingTypes}
    \cup {Fin("non_arithmetic", 0)}

\* The epsilons of those calls: the ones above and one held as f32.
EpsilonObjects ==
    AnyEpsilons \cup {make_epsilon(type, Fin("f32", Scale)) : type \in EpsilonTypes}

EpsilonFunctions ==
    {"Epsilon::value", "Epsilon::epsilon", "detail::make_epsilon", "Epsilon::Epsilon"}

Predicates ==
    {"equality_compare", "inequality_compare", "less_than_compare",
     "less_than_or_equal_compare", "greater_than_compare", "greater_than_or_equal_compare"}

(***************************************************************************)
(* State machine: the operands and epsilon of a call site, the function    *)
(* last called on them (op) and what it returned (result): a boolean from  *)
(* a predicate, a value from Epsilon::value and Epsilon::epsilon, an       *)
(* Epsilon from detail::make_epsilon and Epsilon's default constructor.    *)
(***************************************************************************)
TypeOK ==
    /\ long_double \in LongDoubleFormats
    /\ lhs \in AllOperands
    /\ rhs \in AllOperands
    /\ epsilon \in EpsilonObjects \cup {detail_make_epsilon(lhs.ty, rhs.ty)}
    /\ op \in Predicates \cup EpsilonFunctions \cup {"none"}
    /\ op \in Predicates \cup {"none"} => result \in BOOLEAN

\* A call site over the limits of every arithmetic type.
Init ==
    /\ long_double \in LongDoubleFormats
    /\ lhs \in Operands
    /\ rhs \in Operands
    /\ epsilon \in EpsilonsFor(lhs, rhs, ExplicitEpsilons)
    /\ op = "none"
    /\ result = FALSE

\* A call site over integer operands.
InitInt ==
    /\ long_double \in LongDoubleFormats
    /\ lhs \in IntOperands
    /\ rhs \in IntOperands
    /\ epsilon \in EpsilonsFor(lhs, rhs, {})
    /\ op = "none"
    /\ result = FALSE

\* A call site over floating operands and any epsilon.
InitFloat ==
    /\ long_double \in LongDoubleFormats
    /\ lhs \in FloatOperands
    /\ rhs \in FloatOperands
    /\ epsilon \in EpsilonsFor(lhs, rhs, AnyEpsilons)
    /\ op = "none"
    /\ result = FALSE

\* A call site with an integer and a floating operand, in either order, and
\* the default epsilon or a Relative one.
InitWiden ==
    /\ long_double \in LongDoubleFormats
    /\ \E n \in IntLimitOperands, f \in IntegerValuedOperands :
          \/ lhs = n /\ rhs = f
          \/ lhs = f /\ rhs = n
    /\ epsilon \in EpsilonsFor(lhs, rhs, {make_epsilon("Relative", MachineEpsilon("f64"))})
    /\ op = "none"
    /\ result = FALSE

\* A call site over operands of a user-defined type and any epsilon.
InitUser ==
    /\ long_double \in LongDoubleFormats
    /\ lhs \in UserOperands
    /\ rhs \in UserOperands
    /\ epsilon \in EpsilonsFor(lhs, rhs, AnyEpsilons)
    /\ op = "none"
    /\ result = FALSE

EqualityCompare ==
    /\ op = "none"
    /\ op' = "equality_compare"
    /\ result' = equality_compare(lhs, rhs, epsilon)
    /\ UNCHANGED <<long_double, lhs, rhs, epsilon>>

InequalityCompare ==
    /\ op = "none"
    /\ op' = "inequality_compare"
    /\ result' = inequality_compare(lhs, rhs, epsilon)
    /\ UNCHANGED <<long_double, lhs, rhs, epsilon>>

LessThanCompare ==
    /\ op = "none"
    /\ op' = "less_than_compare"
    /\ result' = less_than_compare(lhs, rhs, epsilon)
    /\ UNCHANGED <<long_double, lhs, rhs, epsilon>>

LessThanOrEqualCompare ==
    /\ op = "none"
    /\ op' = "less_than_or_equal_compare"
    /\ result' = less_than_or_equal_compare(lhs, rhs, epsilon)
    /\ UNCHANGED <<long_double, lhs, rhs, epsilon>>

GreaterThanCompare ==
    /\ op = "none"
    /\ op' = "greater_than_compare"
    /\ result' = greater_than_compare(lhs, rhs, epsilon)
    /\ UNCHANGED <<long_double, lhs, rhs, epsilon>>

GreaterThanOrEqualCompare ==
    /\ op = "none"
    /\ op' = "greater_than_or_equal_compare"
    /\ result' = greater_than_or_equal_compare(lhs, rhs, epsilon)
    /\ UNCHANGED <<long_double, lhs, rhs, epsilon>>

\* An Epsilon and two operands to call its functions on.
InitEpsilon ==
    /\ long_double \in LongDoubleFormats
    /\ lhs \in EpsilonOperands
    /\ rhs \in EpsilonOperands
    /\ epsilon \in EpsilonObjects
    /\ op = "none"
    /\ result = FALSE

\* epsilon.value()
EpsilonValue ==
    /\ op = "none"
    /\ op' = "Epsilon::value"
    /\ result' = Epsilon_value(epsilon)
    /\ UNCHANGED <<long_double, lhs, rhs, epsilon>>

\* epsilon.epsilon(lhs, rhs), for Arithmetic operands.
EpsilonEpsilon ==
    /\ op = "none"
    /\ Arithmetic(lhs.ty)
    /\ Arithmetic(rhs.ty)
    /\ op' = "Epsilon::epsilon"
    /\ result' = Epsilon_epsilon(epsilon, lhs, rhs)
    /\ UNCHANGED <<long_double, lhs, rhs, epsilon>>

\* detail::make_epsilon<TLhs, TRhs>(), the default argument of a predicate.
DetailMakeEpsilon ==
    /\ op = "none"
    /\ op' = "detail::make_epsilon"
    /\ result' = detail_make_epsilon(lhs.ty, rhs.ty)
    /\ UNCHANGED <<long_double, lhs, rhs, epsilon>>

\* Epsilon<TType, TNumeric>{}, of the kind and numeric type of epsilon.
EpsilonDefaultConstruct ==
    /\ op = "none"
    /\ op' = "Epsilon::Epsilon"
    /\ result' = Epsilon_default(epsilon.type, epsilon.m.ty)
    /\ UNCHANGED <<long_double, lhs, rhs, epsilon>>

NextEpsilon ==
    \/ EpsilonValue
    \/ EpsilonEpsilon
    \/ DetailMakeEpsilon
    \/ EpsilonDefaultConstruct

Next ==
    \/ EqualityCompare
    \/ InequalityCompare
    \/ LessThanCompare
    \/ LessThanOrEqualCompare
    \/ GreaterThanCompare
    \/ GreaterThanOrEqualCompare

Spec == Init /\ [][Next]_vars

SpecInt == InitInt /\ [][Next]_vars

SpecFloat == InitFloat /\ [][Next]_vars

SpecWiden == InitWiden /\ [][Next]_vars

SpecUser == InitUser /\ [][Next]_vars

SpecEpsilon == InitEpsilon /\ [][NextEpsilon]_vars

(***************************************************************************)
(* Properties                                                              *)
(***************************************************************************)
BothIntegral == integral(lhs.ty) /\ integral(rhs.ty)

BothFloating == floating_point(lhs.ty) /\ floating_point(rhs.ty)

\* One operand is a signed integer, the other an unsigned integer.
SignedLeft == lhs.ty \in SignedTypes /\ rhs.ty \in UnsignedTypes

SignedRight == lhs.ty \in UnsignedTypes /\ rhs.ty \in SignedTypes

\* The signed operand of a signed/unsigned call.
SignedOperand == IF SignedLeft THEN lhs ELSE rhs

\* The comparison of the operands' mathematical values that predicate o
\* stands for.
MathCompare(o, a, b) ==
    CASE o = "equality_compare" -> a = b
      [] o = "inequality_compare" -> a # b
      [] o = "less_than_compare" -> a < b
      [] o = "less_than_or_equal_compare" -> a <= b
      [] o = "greater_than_compare" -> a > b
      [] o = "greater_than_or_equal_compare" -> a >= b

\* The call passed no epsilon.
DefaultEpsilon == epsilon = detail_make_epsilon(lhs.ty, rhs.ty)

\* The epsilon's magnitude is a non-negative number.
NonNegativeEpsilon == epsilon.m.k = "fin" /\ epsilon.m.v >= 0

ExactlyOne(a, b, c) == (a /\ ~b /\ ~c) \/ (~a /\ b /\ ~c) \/ (~a /\ ~b /\ c)

\* C1: equality is symmetric: equality_compare(x, y) under an epsilon
\* returns what equality_compare(y, x) returns under the same epsilon.
C1_EqualitySymmetric ==
    op = "equality_compare" => result = equality_compare(rhs, lhs, epsilon)

\* C2: with one signed and one unsigned integer operand, in either order,
\* a negative signed operand makes equality_compare false and
\* inequality_compare true.
C2_NegativeNeverEqual ==
    ((SignedLeft \/ SignedRight) /\ SignedOperand.v < 0)
        => /\ op = "equality_compare" => result = FALSE
           /\ op = "inequality_compare" => result = TRUE

\* C3: with one signed and one unsigned integer operand and the signed one
\* non-negative, each predicate returns the comparison of the two
\* mathematical values, whatever the two widths.
C3_NonNegativeMixedSignIsMathematical ==
    ((SignedLeft \/ SignedRight) /\ SignedOperand.v >= 0 /\ op # "none")
        => result = MathCompare(op, lhs.v, rhs.v)

\* C4: a negative signed integer on the left of an unsigned integer is not
\* equal to it, is less than it and is not greater than it.
C4_SignSafetySignedLeft ==
    (SignedLeft /\ lhs.v < 0)
        => /\ op = "equality_compare" => result = FALSE
           /\ op = "less_than_compare" => result = TRUE
           /\ op = "greater_than_compare" => result = FALSE

C4_Witness ==
    /\ SignedLeft
    /\ lhs.v < 0
    /\ rhs.v = IntMax(rhs.ty)
    /\ op = "less_than_compare"
    /\ result = TRUE

\* C5: a negative signed integer is ordered below every unsigned integer by
\* the four ordering predicates, with the signed operand on either side.
C5_NegativeBelowUnsigned ==
    /\ (SignedLeft /\ lhs.v < 0)
          => /\ op \in {"less_than_compare", "less_than_or_equal_compare"} => result = TRUE
             /\ op \in {"greater_than_compare", "greater_than_or_equal_compare"}
                    => result = FALSE
    /\ (SignedRight /\ rhs.v < 0)
          => /\ op \in {"less_than_compare", "less_than_or_equal_compare"} => result = FALSE
             /\ op \in {"greater_than_compare", "greater_than_or_equal_compare"}
                    => result = TRUE

C5_Witness ==
    /\ SignedRight
    /\ rhs.v < 0
    /\ lhs.v = 0
    /\ op = "greater_than_or_equal_compare"
    /\ result = TRUE

\* C6: trichotomy: for operands that are not NaN and an epsilon of
\* non-negative magnitude, exactly one of less_than_compare,
\* equality_compare and greater_than_compare is true.
C6_Trichotomy ==
    (op = "less_than_compare" /\ ~isnan(lhs) /\ ~isnan(rhs) /\ NonNegativeEpsilon)
        => ExactlyOne(result,
                      equality_compare(lhs, rhs, epsilon),
                      greater_than_compare(lhs, rhs, epsilon))

\* C7: less_than_or_equal_compare returns less_than_compare OR
\* equality_compare of the same operands and epsilon.
C7_LessOrEqualIsLessOrEqual ==
    op = "less_than_or_equal_compare"
        => result = (less_than_compare(lhs, rhs, epsilon) \/ equality_compare(lhs, rhs, epsilon))

\* C8: greater_than_or_equal_compare returns greater_than_compare OR
\* equality_compare of the same operands and epsilon.
C8_GreaterOrEqualIsGreaterOrEqual ==
    op = "greater_than_or_equal_compare"
        => result = (greater_than_compare(lhs, rhs, epsilon)
                     \/ equality_compare(lhs, rhs, epsilon))

\* C9 as stated: under the default epsilon every value that is not NaN,
\* the infinities included, is equal to itself.
C9_ReflexiveWithInfinities ==
    (op = "equality_compare" /\ lhs = rhs /\ ~isnan(lhs) /\ DefaultEpsilon) => result = TRUE

\* C9 as amended: under the default epsilon every integer and every finite
\* floating value is equal to itself.
C9_ReflexiveFinite ==
    (op = "equality_compare" /\ lhs = rhs /\ lhs.k = "fin" /\ DefaultEpsilon) => result = TRUE

C9_Witness ==
    /\ op = "equality_compare"
    /\ lhs = rhs
    /\ lhs = Fin("f32", MaxFinite("f32"))
    /\ DefaultEpsilon
    /\ result = TRUE

\* C10: when either floating operand is NaN or an infinity, equality_compare
\* is false and inequality_compare is true, under every epsilon.
C10_NaNAndInfinityNeverEqual ==
    (BothFloating /\ (isnan(lhs) \/ isinf(lhs) \/ isnan(rhs) \/ isinf(rhs)))
        => /\ op = "equality_compare" => result = FALSE
           /\ op = "inequality_compare" => result = TRUE

C10_Witness ==
    /\ lhs = PInf("f64")
    /\ rhs = PInf("f64")
    /\ epsilon = make_epsilon("Absolute", PInf("f64"))
    /\ op = "equality_compare"
    /\ result = FALSE

\* C11: inequality_compare is the complement of equality_compare: for all
\* operands and every epsilon whose magnitude is not NaN,
\* inequality_compare(x, y, e) = ~equality_compare(x, y, e).
C11_InequalityIsComplement ==
    (op = "inequality_compare" /\ ~isnan(epsilon.m))
        => result = ~equality_compare(lhs, rhs, epsilon)

\* C11 for epsilons of finite magnitude.
C11_ComplementFiniteEpsilon ==
    (op = "inequality_compare" /\ epsilon.m.k = "fin")
        => result = ~equality_compare(lhs, rhs, epsilon)

\* x + d as a test writes it: the sum of the two values in their common
\* type.
Plus(x, d) ==
    NativeAdd(static_cast(common_type_t(x.ty, d.ty), x), static_cast(common_type_t(x.ty, d.ty), d))

\* The call has floating operands, a finite lhs and an Absolute epsilon of
\* finite magnitude d > 0.
AbsoluteEpsilonCall ==
    /\ BothFloating
    /\ lhs.k = "fin"
    /\ epsilon.type = "Absolute"
    /\ epsilon.m.k = "fin"
    /\ epsilon.m.v > 0

\* The sum x + d is finite and has the mathematical value of x plus d.
ExactSum(x, d) == Plus(x, d).k = "fin" /\ Plus(x, d).v = x.v + d.v

\* C12 as stated: with e = make_epsilon<Absolute>(d), d > 0, and any finite
\* x, equality_compare(x, x + d, e) is true and equality_compare(x, x + 2d, e)
\* is false, and inequality_compare returns the opposite.
C12_AbsoluteBoundaryInclusive ==
    (AbsoluteEpsilonCall /\ op \in {"equality_compare", "inequality_compare"})
        => /\ rhs = Plus(lhs, epsilon.m) => result = (op = "equality_compare")
           /\ rhs = Plus(lhs, NativeAdd(epsilon.m, epsilon.m))
                  => result = (op = "inequality_compare")

\* C12 as amended: the same when the sums x + d and x + 2d are computed
\* without rounding or overflow.
C12_AbsoluteBoundaryExactSums ==
    (AbsoluteEpsilonCall /\ op \in {"equality_compare", "inequality_compare"})
        => /\ (rhs = Plus(lhs, epsilon.m) /\ ExactSum(lhs, epsilon.m))
                  => result = (op = "equality_compare")
           /\ (rhs = Plus(lhs, NativeAdd(epsilon.m, epsilon.m))
               /\ ExactSum(lhs, NativeAdd(epsilon.m, epsilon.m)))
                  => result = (op = "inequality_compare")

C12_Witness ==
    /\ lhs = Fin("f32", Scale)
    /\ epsilon = make_epsilon("Absolute", MachineEpsilon("f64"))
    /\ rhs = Fin("f64", Scale + MachineEpsilon("f64").v)
    /\ rhs = Plus(lhs, epsilon.m)
    /\ op = "equality_compare"
    /\ result = TRUE

\* The larger of the magnitudes of the operands' mathematical values.
MaxMagnitude == IF AbsInt(lhs.v) > AbsInt(rhs.v) THEN AbsInt(lhs.v) ELSE AbsInt(rhs.v)

\* |a - b| <= m * max(|a|, |b|) on the mathematical values of the operands
\* and of the epsilon's magnitude m (all held in units of 1 / Scale).
WithinRelativeTolerance == AbsInt(lhs.v - rhs.v) * Scale <= epsilon.m.v * MaxMagnitude

\* The call has finite floating operands and a Relative epsilon of finite
\* magnitude m >= 0.
RelativeEpsilonCall ==
    /\ BothFloating
    /\ lhs.k = "fin"
    /\ rhs.k = "fin"
    /\ epsilon.type = "Relative"
    /\ NonNegativeEpsilon

\* The rational num / den is a finite value of floating type t.
Representable(t, num, den) ==
    /\ num % den = 0
    /\ Round(t, num, den) = Fin(t, num \div den)

\* The difference lhs - rhs is a value of the type the comparison is made
\* in, and the product m * max(|lhs|, |rhs|) a value of the epsilon's
\* type: neither is rounded, neither overflows.
ExactRelativeArithmetic ==
    /\ Representable(common_t(lhs, rhs, epsilon.m), lhs.v - rhs.v, 1)
    /\ Representable(epsilon.m.ty, epsilon.m.v * MaxMagnitude, Scale)

\* C13 as stated: with e = make_epsilon<Relative>(m), m >= 0,
\* equality_compare(a, b, e) on finite operands is true exactly when
\* |a - b| <= m * max(|a|, |b|).
C13_RelativeScalesWithMagnitude ==
    (RelativeEpsilonCall /\ op = "equality_compare") => result = WithinRelativeTolerance

\* C13 as amended: the same when the difference and the product are
\* computed without rounding or overflow.
C13_RelativeExactArithmetic ==
    (RelativeEpsilonCall /\ ExactRelativeArithmetic /\ op = "equality_compare")
        => result = WithinRelativeTolerance

\* 0 and 1 are equal under a Relative epsilon of 1: the tolerance is the
\* larger operand magnitude, and the boundary is inclusive.
C13_Witness ==
    /\ lhs = Fin("f64", 0)
    /\ rhs = Fin("f64", Scale)
    /\ epsilon = make_epsilon("Relative", Fin("f64", Scale))
    /\ ExactRelativeArithmetic
    /\ WithinRelativeTolerance
    /\ op = "equality_compare"
    /\ result = TRUE

\* The tolerance epsilon_for(lhs, rhs) of the call.
EffectiveEpsilon == Epsilon_epsilon(epsilon, lhs, rhs)

\* The operands and the tolerance are finite and rhs - tolerance is
\* computed without rounding or overflow.
ExactLowerBound ==
    /\ lhs.k = "fin"
    /\ rhs.k = "fin"
    /\ EffectiveEpsilon.k = "fin"
    /\ Representable(common_t(lhs, rhs, EffectiveEpsilon), rhs.v - EffectiveEpsilon.v, 1)

\* C14: for floating operands less_than_compare is true if lhs is
\* -Infinity; otherwise false if rhs is -Infinity; otherwise false if an
\* operand is NaN; otherwise the result of lhs < rhs - epsilon_for(lhs, rhs),
\* which for an exact rhs - epsilon_for(lhs, rhs) is the comparison of the
\* mathematical values.
C14_LessThanOrderedRule ==
    (BothFloating /\ op = "less_than_compare")
        => /\ result = (IF lhs = NInf(lhs.ty) THEN TRUE
                        ELSE IF rhs = NInf(rhs.ty) THEN FALSE
                        ELSE IF lhs.k = "nan" \/ rhs.k = "nan" THEN FALSE
                        ELSE LessByError(lhs, rhs, EffectiveEpsilon))
           /\ ExactLowerBound => result = (lhs.v < rhs.v - EffectiveEpsilon.v)

\* -Infinity is less than NaN: the first rule applies before the NaN rule.
C14_Witness ==
    /\ lhs = NInf("f32")
    /\ rhs = NaN("f64")
    /\ op = "less_than_compare"
    /\ result = TRUE

\* C15: greater_than_compare is false whenever an operand is NaN, whatever
\* the other operand and the epsilon.
C15_GreaterThanNaNIsFalse ==
    (op = "greater_than_compare" /\ (lhs.k = "nan" \/ rhs.k = "nan")) => result = FALSE

\* C16: under the default epsilon greater_than_compare(+Infinity, rhs) is
\* true for every rhs that is not NaN: finite, -Infinity or +Infinity.
C16_PositiveInfinityAlwaysGreater ==
    (op = "greater_than_compare" /\ DefaultEpsilon /\ lhs.k = "pinf" /\ rhs.k # "nan")
        => result = TRUE

\* C17: under the default epsilon, for every finite v,
\* less_than_compare(-Infinity, v) and greater_than_compare(+Infinity, v)
\* are true.
C17_InfinitiesBoundFiniteValues ==
    (DefaultEpsilon /\ rhs.k = "fin")
        => /\ (op = "less_than_compare" /\ lhs.k = "ninf") => result = TRUE
           /\ (op = "greater_than_compare" /\ lhs.k = "pinf") => result = TRUE

C17_Witness ==
    /\ lhs = PInf("f32")
    /\ rhs = Fin("fmax", MaxFinite("fmax"))
    /\ DefaultEpsilon
    /\ op = "greater_than_compare"
    /\ result = TRUE

\* The operands are finite floating values whose mathematical distance is
\* no more than the tolerance t = epsilon_for(lhs, rhs), and t >= 0.
InsideToleranceBand ==
    /\ BothFloating
    /\ lhs.k = "fin"
    /\ rhs.k = "fin"
    /\ \/ EffectiveEpsilon.k = "pinf"
       \/ /\ EffectiveEpsilon.k = "fin"
          /\ EffectiveEpsilon.v >= 0
          /\ AbsInt(lhs.v - rhs.v) <= EffectiveEpsilon.v

\* C18: finite floating operands no further apart than the tolerance are
\* equal and unordered: equality_compare, less_than_or_equal_compare and
\* greater_than_or_equal_compare are true, inequality_compare,
\* less_than_compare and greater_than_compare are false, in either
\* argument order.
C18_InsideBandEqualAndUnordered ==
    (InsideToleranceBand /\ op # "none")
        => result = (op \in {"equality_compare", "less_than_or_equal_compare",
                             "greater_than_or_equal_compare"})

\* 1 + epsilon is not greater than 1 under the default epsilon.
C18_Witness ==
    /\ lhs = Fin("f64", Scale + MachineEpsilon("f64").v)
    /\ rhs = Fin("f64", Scale)
    /\ DefaultEpsilon
    /\ InsideToleranceBand
    /\ op = "greater_than_compare"
    /\ result = FALSE

\* The call passes no epsilon and compares 1.0 with a value of the same
\* floating type.
DefaultEpsilonScenario ==
    /\ BothFloating
    /\ lhs.ty = rhs.ty
    /\ lhs = Fin(lhs.ty, Scale)
    /\ DefaultEpsilon
    /\ op = "equality_compare"

\* C19 as stated: with no epsilon supplied and e the machine epsilon of the
\* operand type, equality_compare(1.0, 1.0 + e) and
\* equality_compare(1.0, 1.0 + 2 * e) are both true.
C19_DefaultEpsilonScenario ==
    DefaultEpsilonScenario
        => /\ rhs = Plus(lhs, MachineEpsilon(lhs.ty)) => result = TRUE
           /\ rhs = Plus(lhs, NativeAdd(MachineEpsilon(lhs.ty), MachineEpsilon(lhs.ty)))
                  => result = TRUE

\* C19 as amended: equality_compare(1.0, 1.0 + e) is true and
\* equality_compare(1.0, 1.0 + 2 * e) is false.
C19_DefaultEpsilonIsOneEpsilon ==
    DefaultEpsilonScenario
        => /\ rhs = Plus(lhs, MachineEpsilon(lhs.ty)) => result = TRUE
           /\ rhs = Plus(lhs, NativeAdd(MachineEpsilon(lhs.ty), MachineEpsilon(lhs.ty)))
                  => result = FALSE

C19_Witness ==
    /\ DefaultEpsilonScenario
    /\ lhs.ty = "f64"
    /\ rhs = Fin("f64", Scale + 2 * MachineEpsilon("f64").v)
    /\ rhs = Plus(lhs, NativeAdd(MachineEpsilon("f64"), MachineEpsilon("f64")))
    /\ result = FALSE

\* Exactly one operand is an integer.
IntegerAndFloating == integral(lhs.ty) # integral(rhs.ty)

IntegerOperand == IF integral(lhs.ty) THEN lhs ELSE rhs

FloatingOperand == IF integral(lhs.ty) THEN rhs ELSE lhs

\* An operand as the floating/floating branch gets it: an integer's value
\* converted to the maximal floating type.
ConvertedToFmax(x) == IF integral(x.ty) THEN Round("fmax", x.v * Scale, 1) ELSE x

\* The floating/floating branch of predicate o.
FloatingBranch(o, l, r, e) ==
    CASE o = "equality_compare" -> equality_compare_floating(l, r, e)
      [] o = "inequality_compare" -> inequality_compare_floating(l, r, e)
      [] o = "less_than_compare" -> less_than_compare_floating(l, r, e)
      [] o = "less_than_or_equal_compare" -> less_than_or_equal_compare_floating(l, r, e)
      [] o = "greater_than_compare" -> greater_than_compare_floating(l, r, e)
      [] o = "greater_than_or_equal_compare" -> greater_than_or_equal_compare_floating(l, r, e)

\* C20 as stated: with exactly one integer operand each predicate returns
\* what its floating/floating branch returns for the integer's value
\* converted to the maximal floating type, with the same epsilon; under the
\* default epsilon equality_compare(n, f) is true when f has the value n
\* and false when f has the value n + 1, for every integer n.
C20_IntegerWidening ==
    (IntegerAndFloating /\ op # "none")
        => /\ result = FloatingBranch(op, ConvertedToFmax(lhs), ConvertedToFmax(rhs), epsilon)
           /\ (op = "equality_compare" /\ DefaultEpsilon /\ FloatingOperand.k = "fin")
                  => /\ FloatingOperand.v = IntegerOperand.v * Scale => result = TRUE
                     /\ FloatingOperand.v = (IntegerOperand.v + 1) * Scale => result = FALSE

\* C20 as amended: the same, with equality_compare(n, f) false for f of
\* value n + 1 when the maximal floating type holds n exactly.
C20_IntegerWideningExact ==
    (IntegerAndFloating /\ op # "none")
        => /\ result = FloatingBranch(op, ConvertedToFmax(lhs), ConvertedToFmax(rhs), epsilon)
           /\ (op = "equality_compare" /\ DefaultEpsilon /\ FloatingOperand.k = "fin")
                  => /\ FloatingOperand.v = IntegerOperand.v * Scale => result = TRUE
                     /\ (FloatingOperand.v = (IntegerOperand.v + 1) * Scale
                         /\ Representable("fmax", IntegerOperand.v * Scale, 1))
                            => result = FALSE

\* The largest u64 is not equal to the floating value one above it where
\* long double holds it exactly.
C20_Witness ==
    /\ long_double = "x87"
    /\ lhs = Fin("u64", IntMax("u64"))
    /\ rhs = Fin("f64", (IntMax("u64") + 1) * Scale)
    /\ Representable("fmax", lhs.v * Scale, 1)
    /\ DefaultEpsilon
    /\ op = "equality_compare"
    /\ result = FALSE

\* Both operands are of a user-defined type.
BothUserDefined == lhs.ty \in UserTypes /\ rhs.ty \in UserTypes

\* C21: for operands of a user-defined comparable type each predicate
\* returns what the type's own operator (==, !=, <, <=, >, >=) returns on
\* them, whatever the epsilon.
C21_UserDefinedUsesNativeOperator ==
    (BothUserDefined /\ op # "none") => result = MathCompare(op, lhs.v, rhs.v)

\* Equal values of the user-defined type are greater-or-equal under a NaN
\* epsilon.
C21_Witness ==
    /\ lhs = Fin("non_arithmetic", 0)
    /\ rhs = Fin("non_arithmetic", 0)
    /\ epsilon = make_epsilon("Relative", NaN("f64"))
    /\ op = "greater_than_or_equal_compare"
    /\ result = TRUE

\* C22: an Absolute epsilon is a stored value: value() returns its
\* magnitude m and epsilon(lhs, rhs) returns m for every pair of operands.
C22_AbsoluteIsStoredValue ==
    (epsilon.type = "Absolute" /\ op \in {"Epsilon::value", "Epsilon::epsilon"})
        => result = epsilon.m

C22_Witness ==
    /\ epsilon = make_epsilon("Absolute", Fin("f64", Scale))
    /\ lhs = Fin("fmax", -MaxFinite("fmax"))
    /\ rhs = PInf("f32")
    /\ op = "Epsilon::epsilon"
    /\ result = Fin("f64", Scale)

\* m * max(|lhs|, |rhs|) computed in the common type of m, lhs and rhs.
ProductInCommonType ==
    NativeMul(static_cast(common_t(lhs, rhs, epsilon.m), epsilon.m),
              static_cast(common_t(lhs, rhs, epsilon.m), max(abs(lhs), abs(rhs))))

\* C23: for a Relative epsilon of magnitude m, epsilon(lhs, rhs) returns
\* m * max(|lhs|, |rhs|) computed in the common type of m, lhs and rhs, not
\* truncated to the epsilon's numeric type, and value() returns m.
C23_RelativeInCommonType ==
    epsilon.type = "Relative"
        => /\ op = "Epsilon::epsilon" => result = ProductInCommonType
           /\ op = "Epsilon::value" => result = epsilon.m

\* C23 as the code has it: for a Relative epsilon of magnitude m,
\* epsilon(lhs, rhs) is m * max(|lhs|, |rhs|) computed in the common type of
\* m, lhs and rhs and then converted to the epsilon's own numeric type, and
\* value() returns m.
C23_RelativeConvertedToNumericType ==
    epsilon.type = "Relative"
        => /\ op = "Epsilon::epsilon" => result = static_cast(epsilon.m.ty, ProductInCommonType)
           /\ op = "Epsilon::value" => result = epsilon.m

C23_Witness ==
    /\ epsilon = make_epsilon("Relative", Fin("f32", Scale))
    /\ lhs = Fin("f64", Scale + MachineEpsilon("f64").v)
    /\ rhs = Fin("f64", 0)
    /\ op = "Epsilon::epsilon"
    /\ ProductInCommonType = lhs
    /\ result = Fin("f32", Scale)

\* C24: the epsilon synthesized for a call without one is Absolute and its
\* magnitude is the machine epsilon of the common type of the two operand
\* types, or of fmax when the two types have no common type; a
\* default-constructed Relative epsilon has magnitude 0.001.
C24_DefaultEpsilonRule ==
    /\ op = "detail::make_epsilon"
        => /\ result.type = "Absolute"
           /\ result.m = MachineEpsilon(IF Arithmetic(lhs.ty) /\ Arithmetic(rhs.ty)
                                        THEN common_type_t(lhs.ty, rhs.ty)
                                        ELSE "fmax")
    /\ (op = "Epsilon::Epsilon" /\ epsilon.type = "Relative")
        => result = Epsilon("Relative", Round(epsilon.m.ty, Scale, 1000))

\* The part of C24 about operand types that have a common type, and about
\* the default-constructed Relative epsilon.
C24_DefaultEpsilonWithCommonType ==
    /\ (op = "detail::make_epsilon" /\ Arithmetic(lhs.ty) /\ Arithmetic(rhs.ty))
        => result = Epsilon("Absolute", MachineEpsilon(common_type_t(lhs.ty, rhs.ty)))
    /\ (op = "Epsilon::Epsilon" /\ epsilon.type = "Relative")
        => result = Epsilon("Relative", Round(epsilon.m.ty, Scale, 1000))

\* lhs, rhs and the tolerance of the call as safe_float_equality and
\* safe_float_inequality hold them: converted to their common type.
CommonLeft == static_cast(common_t(lhs, rhs, EffectiveEpsilon), lhs)

CommonRight == static_cast(common_t(lhs, rhs, EffectiveEpsilon), rhs)

CommonError == static_cast(common_t(lhs, rhs, EffectiveEpsilon), EffectiveEpsilon)

\* Finite floating operands whose difference, computed in the common type,
\* is an infinity or NaN.
OverflowingDifference ==
    /\ BothFloating
    /\ lhs.k = "fin"
    /\ rhs.k = "fin"
    /\ NativeSub(CommonLeft, CommonRight).k # "fin"

C26_SwapDuality ==
    /\ op = "greater_than_compare" => result = less_than_compare(rhs, lhs, epsilon)
    /\ op = "greater_than_or_equal_compare"
        => result = less_than_or_equal_compare(rhs, lhs, epsilon)

\* C27: under an epsilon of non-negative magnitude, finite or infinite,
\* less_than_compare(x, y)
\* and greater_than_compare(x, y) are never both true: what the one called
\* returned and what the other returns on the same operands.
C27_StrictPredicatesExclusive ==
    (NonNegativeEpsilon \/ epsilon.m.k = "pinf")
        => /\ op = "less_than_compare" => ~(result /\ greater_than_compare(lhs, rhs, epsilon))
           /\ op = "greater_than_compare" => ~(result /\ less_than_compare(lhs, rhs, epsilon))

C27_Witness ==
    /\ lhs = Fin("i32", -1)
    /\ rhs = Fin("f32", Scale)
    /\ DefaultEpsilon
    /\ op = "less_than_compare"
    /\ result = TRUE
    /\ ~greater_than_compare(lhs, rhs, epsilon)

\* C28: strict ordering is irreflexive: for every value x, infinities and
\* NaN included, and every epsilon of non-negative magnitude,
\* less_than_compare(x, x) and greater_than_compare(x, x) are false.
C28_StrictOrderIrreflexive ==
    (lhs = rhs /\ NonNegativeEpsilon /\ op \in {"less_than_compare", "greater_than_compare"})
        => result = FALSE

\* C28 for every value but -Infinity.
C28_IrreflexiveButMinusInfinity ==
    (/\ lhs = rhs
     /\ lhs.k # "ninf"
     /\ NonNegativeEpsilon
     /\ op \in {"less_than_compare", "greater_than_compare"})
        => result = FALSE

\* The epsilon is an explicit one of positive finite magnitude.
PositiveFiniteEpsilon == epsilon.m.k = "fin" /\ epsilon.m.v > 0

\* C29: for every finite v and every epsilon of positive finite magnitude,
\* Absolute or Relative, less_than_compare(v, +Infinity) and
\* greater_than_compare(+Infinity, v) are true and
\* less_than_or_equal_compare(+Infinity, v) and
\* greater_than_or_equal_compare(v, +Infinity) are false.
C29_PlusInfinityOrderAnyEpsilonKind ==
    (BothFloating /\ PositiveFiniteEpsilon)
        => /\ (lhs.k = "fin" /\ rhs.k = "pinf")
                => /\ op = "less_than_compare" => result = TRUE
                   /\ op = "greater_than_or_equal_compare" => result = FALSE
           /\ (lhs.k = "pinf" /\ rhs.k = "fin")
                => /\ op = "greater_than_compare" => result = TRUE
                   /\ op = "less_than_or_equal_compare" => result = FALSE

\* C29 for Absolute epsilons.
C29_PlusInfinityOrderAbsolute ==
    (BothFloating /\ PositiveFiniteEpsilon /\ epsilon.type = "Absolute")
        => /\ (lhs.k = "fin" /\ rhs.k = "pinf")
                => /\ op = "less_than_compare" => result = TRUE
                   /\ op = "greater_than_or_equal_compare" => result = FALSE
           /\ (lhs.k = "pinf" /\ rhs.k = "fin")
                => /\ op = "greater_than_compare" => result = TRUE
                   /\ op = "less_than_or_equal_compare" => result = FALSE

\* The finite floating values a third operand is drawn from.
FiniteFloatOperands == {c \in FloatOperands : c.k = "fin"}

====
